---------------------------- MODULE Spec2Model ----------------------------
(***************************************************************************)
(* Model of aoc_lib's benchmarking core (src/src/bench.rs):                *)
(*   - bench_worker / Bench::bench / bench_function_memory: the per-job    *)
(*     event protocol, run by several worker threads that share one        *)
(*     TracingAlloc and one event channel (specification Spec, FairSpec);  *)
(*   - get_data: the memory trace parser (specification SpecParse).        *)
(* TracingAlloc (alloc.rs) and the receiving end of the channel are not    *)
(* part of the available source; they are modelled from the design         *)
(* document (sections 3, 4.1, 5 and 7).                                    *)
(***************************************************************************)
EXTENDS Integers, Sequences, FiniteSets, TLC

\* Number of jobs handed to worker threads (each runs bench_worker once).
NJobs == 2

Jobs == 1..NJobs

VARIABLES
    pc,          \* pc[j]: position of job j's worker thread
    sent,        \* sent[j]: events delivered to the channel for id j, in order
    cause,       \* cause[j]: why job j left the normal path ("none" if it did not)
    calls,       \* calls[j]: invocations of the job closure / samplers so far,
                 \* and the steps of its bench_function_memory call, in order
    failedSends, \* failedSends[j]: sends of job j that returned SendError
    tracer,      \* the shared TracingAlloc: installed sink (0: none) and flag
    chanOpen,    \* a receiver of the event channel still exists
    run_only,    \* Bench.run_only (the same for every job of a run)
    trace,       \* get_data: the lines of trace_input
    idx,         \* get_data: number of lines consumed by the for loop
    cur_bytes,   \* get_data: cur_bytes
    max_bytes,   \* get_data: max_bytes
    max_memory,  \* get_data: MemoryData.max_memory, once returned
    ppc,         \* get_data: "idle" | "loop" | "ret" | "panic"
    build,       \* "debug" (overflow checks on) | "release" (wrapping)
    rt,          \* bench_function_runtime: its locals, its clock and its position
    ch,          \* the event channel as a queue, with its senders and consumer
    single       \* run_single: its position, current part and printed lines

varsB == <<pc, sent, cause, calls, failedSends, tracer, chanOpen, run_only>>
varsP == <<trace, idx, cur_bytes, max_bytes, max_memory, ppc, build>>
varsX == <<rt, ch, single>>
vars == <<pc, sent, cause, calls, failedSends, tracer, chanOpen, run_only,
          trace, idx, cur_bytes, max_bytes, max_memory, ppc, build,
          rt, ch, single>>

\* bench_function_runtime is not running.
RtIdle == rt = [pc |-> "idle"]

\* Nothing is sent on the queue model of the channel.
ChIdle == ch = [pc |-> "idle"]

\* run_single is not running.
SingleIdle == single = [pc |-> "idle"]

-----------------------------------------------------------------------------
(* The event protocol *)

NoCalls == [answer |-> 0, traced |-> 0, runtime |-> 0, steps |-> <<>>]

InitBench ==
    /\ pc = [j \in Jobs |-> "pending"]
    /\ sent = [j \in Jobs |-> <<>>]
    /\ cause = [j \in Jobs |-> "none"]
    /\ calls = [j \in Jobs |-> NoCalls]
    /\ failedSends = [j \in Jobs |-> 0]
    /\ tracer = [sink |-> 0, enabled |-> FALSE]
    /\ chanOpen = TRUE
    /\ run_only \in BOOLEAN

BenchIdle ==
    /\ pc = [j \in Jobs |-> "pending"]
    /\ sent = [j \in Jobs |-> <<>>]
    /\ cause = [j \in Jobs |-> "none"]
    /\ calls = [j \in Jobs |-> NoCalls]
    /\ failedSends = [j \in Jobs |-> 0]
    /\ tracer = [sink |-> 0, enabled |-> FALSE]
    /\ chanOpen = TRUE
    /\ run_only = TRUE

\* Sender::send(ev): delivers the event while a receiver exists, and returns
\* SendError otherwise.  okPc / errPc: where the caller continues.
Send(j, ev, okPc, errPc) ==
    IF chanOpen
    THEN /\ sent' = [sent EXCEPT ![j] = Append(@, ev)]
         /\ pc' = [pc EXCEPT ![j] = okPc]
         /\ UNCHANGED <<cause, failedSends>>
    ELSE /\ pc' = [pc EXCEPT ![j] = errPc]
         /\ failedSends' = [failedSends EXCEPT ![j] = @ + 1]
         /\ cause' = [cause EXCEPT ![j] = IF @ = "none" THEN "chan" ELSE @]
         /\ UNCHANGED sent

\* Variant of InputOpen: a failed open falls through to the job function.
InputOpen_FallThrough(j) ==
    /\ pc[j] = "pending"
    /\ pc' = [pc EXCEPT ![j] = "func"]
    /\ \/ UNCHANGED cause
       \/ cause' = [cause EXCEPT ![j] = "input"]
    /\ UNCHANGED <<sent, calls, failedSends, tracer, chanOpen, run_only, varsP, varsX>>

\* bench_worker, input(year, day).open(): Ok -> call func inside catch_unwind;
\* Err(InputFileError) -> send Error directly.
InputOpen(j) ==
    /\ pc[j] = "pending"
    /\ \/ /\ pc' = [pc EXCEPT ![j] = "func"]
          /\ UNCHANGED cause
       \/ /\ pc' = [pc EXCEPT ![j] = "send_input_err"]
          /\ cause' = [cause EXCEPT ![j] = "input"]
    /\ UNCHANGED <<sent, calls, failedSends, tracer, chanOpen, run_only, varsP, varsX>>

\* The job function (type Function), run inside catch_unwind.  It returns an
\* error of its own (e.g. UserError from parsing its input), panics, or hands
\* its closure to Bench::bench and returns bench's result.
FuncEnter(j) ==
    /\ pc[j] = "func"
    /\ \/ /\ pc' = [pc EXCEPT ![j] = "answer"]
          /\ UNCHANGED cause
       \/ /\ pc' = [pc EXCEPT ![j] = "send_err"]
          /\ cause' = [cause EXCEPT ![j] = "user"]
       \/ /\ pc' = [pc EXCEPT ![j] = "send_panic"]
          /\ cause' = [cause EXCEPT ![j] = "panic_func"]
    /\ UNCHANGED <<sent, calls, failedSends, tracer, chanOpen, run_only, varsP, varsX>>

\* Bench::bench, `match f()`: the first invocation of the closure.
BenchAnswer(j) ==
    /\ pc[j] = "answer"
    /\ calls' = [calls EXCEPT ![j].answer = @ + 1]
    /\ \/ /\ pc' = [pc EXCEPT ![j] = "send_answer"]
          /\ UNCHANGED cause
       \/ /\ pc' = [pc EXCEPT ![j] = "send_f_err"]
          /\ cause' = [cause EXCEPT ![j] = "f_err"]
       \/ /\ pc' = [pc EXCEPT ![j] = "send_panic"]
          /\ cause' = [cause EXCEPT ![j] = "panic_answer"]
    /\ UNCHANGED <<sent, failedSends, tracer, chanOpen, run_only, varsP, varsX>>

\* Variant of SendAnswer: the samplers run whatever run_only says.
SendAnswer_IgnoreRunOnly(j) ==
    /\ pc[j] = "send_answer"
    /\ Send(j, "Answer", "tempfile", "send_err")
    /\ UNCHANGED <<calls, tracer, chanOpen, run_only, varsP, varsX>>

\* Variant of SendAnswer: bench itself also sends the Finish of the job.
SendAnswer_AndFinish(j) ==
    /\ pc[j] = "send_answer"
    /\ sent' = [sent EXCEPT ![j] = @ \o <<"Answer", "Finish">>]
    /\ pc' = [pc EXCEPT ![j] = IF run_only THEN "send_finish" ELSE "tempfile"]
    /\ UNCHANGED <<cause, failedSends, calls, tracer, chanOpen, run_only, varsP, varsX>>

\* Bench::bench, Ok(t): send Answer; `?` returns ChannelError to the job
\* function (and so to bench_worker's Ok(Err(e)) arm); with run_only the
\* `if !self.run_only` block is skipped and bench returns Ok(()).
SendAnswer(j) ==
    /\ pc[j] = "send_answer"
    /\ Send(j, "Answer", IF run_only THEN "send_finish" ELSE "tempfile", "send_err")
    /\ UNCHANGED <<calls, tracer, chanOpen, run_only, varsP, varsX>>

\* Variant of SendFErr: bench returns the error after reporting it, so that
\* bench_worker reports it a second time.
SendFErr_Rethrow(j) ==
    /\ pc[j] = "send_f_err"
    /\ Send(j, "Error", "send_err", "send_err")
    /\ UNCHANGED <<calls, tracer, chanOpen, run_only, varsP, varsX>>

\* Variant of SendFErr: after reporting the error the samplers run as they
\* do after an Answer.
SendFErr_ThenSample(j) ==
    /\ pc[j] = "send_f_err"
    /\ Send(j, "Error", IF run_only THEN "send_finish" ELSE "tempfile", "send_err")
    /\ UNCHANGED <<calls, tracer, chanOpen, run_only, varsP, varsX>>

\* Bench::bench, Err(e): send Error, then fall through to Ok(()).
SendFErr(j) ==
    /\ pc[j] = "send_f_err"
    /\ Send(j, "Error", "send_finish", "send_err")
    /\ UNCHANGED <<calls, tracer, chanOpen, run_only, varsP, varsX>>

\* Variant of Tempfile: the scratch file is created after the sink is
\* installed, so that its failure returns with a sink in place.
Tempfile_AfterSetFile(j) ==
    /\ pc[j] = "tempfile"
    /\ \/ /\ pc' = [pc EXCEPT ![j] = "set_file"]
          /\ UNCHANGED <<cause, tracer>>
       \/ /\ pc' = [pc EXCEPT ![j] = "send_err"]
          /\ cause' = [cause EXCEPT ![j] = "mem_io"]
          /\ tracer' = [tracer EXCEPT !.sink = j]
    /\ UNCHANGED <<sent, calls, failedSends, chanOpen, run_only, varsP, varsX>>

\* bench_function_memory: tempfile::tempfile()?
Tempfile(j) ==
    /\ pc[j] = "tempfile"
    /\ \/ /\ pc' = [pc EXCEPT ![j] = "set_file"]
          /\ UNCHANGED cause
       \/ /\ pc' = [pc EXCEPT ![j] = "send_err"]
          /\ cause' = [cause EXCEPT ![j] = "mem_io"]
    /\ UNCHANGED <<sent, calls, failedSends, tracer, chanOpen, run_only, varsP, varsX>>

\* TracingAlloc::set_file (install_sink): takes the sink when none is
\* installed.  With a sink already installed the install fails: set_file
\* returns nothing the caller could test, so it either panics in the caller
\* or returns having installed nothing.
SetFile(j) ==
    /\ pc[j] = "set_file"
    /\ calls' = [calls EXCEPT ![j].steps = Append(@, "set_file")]
    /\ \/ /\ tracer.sink = 0
          /\ tracer' = [tracer EXCEPT !.sink = j]
          /\ pc' = [pc EXCEPT ![j] = "enable"]
          /\ UNCHANGED cause
       \/ /\ tracer.sink # 0
          /\ pc' = [pc EXCEPT ![j] = "enable"]
          /\ UNCHANGED <<tracer, cause>>
       \/ /\ tracer.sink # 0
          /\ pc' = [pc EXCEPT ![j] = "send_panic"]
          /\ cause' = [cause EXCEPT ![j] = "tracer"]
          /\ UNCHANGED tracer
    /\ UNCHANGED <<sent, failedSends, chanOpen, run_only, varsP, varsX>>

\* TracingAlloc::enable_tracing (enable).
EnableTracing(j) ==
    /\ pc[j] = "enable"
    /\ calls' = [calls EXCEPT ![j].steps = Append(@, "enable_tracing")]
    /\ tracer' = [tracer EXCEPT !.enabled = TRUE]
    /\ pc' = [pc EXCEPT ![j] = "traced"]
    /\ UNCHANGED <<sent, cause, failedSends, chanOpen, run_only, varsP, varsX>>

\* Variant of Traced: the callable is invoked a second time under the
\* tracer.
Traced_Twice(j) ==
    /\ pc[j] = "traced"
    /\ calls' = [calls EXCEPT ![j].traced = @ + 2,
                            ![j].steps = @ \o <<"func", "func">>]
    /\ \/ /\ pc' = [pc EXCEPT ![j] = "disable"]
          /\ UNCHANGED cause
       \/ /\ pc' = [pc EXCEPT ![j] = "send_panic"]
          /\ cause' = [cause EXCEPT ![j] = "panic_traced"]
    /\ UNCHANGED <<sent, failedSends, tracer, chanOpen, run_only, varsP, varsX>>

\* bench_function_memory, `let res = func();`: the traced invocation.  A
\* panic unwinds to catch_unwind in bench_worker; nothing on the way calls
\* disable_tracing or clear_file.
Traced(j) ==
    /\ pc[j] = "traced"
    /\ calls' = [calls EXCEPT ![j].traced = @ + 1,
                            ![j].steps = Append(@, "func")]
    /\ \/ /\ pc' = [pc EXCEPT ![j] = "disable"]
          /\ UNCHANGED cause
       \/ /\ pc' = [pc EXCEPT ![j] = "send_panic"]
          /\ cause' = [cause EXCEPT ![j] = "panic_traced"]
    /\ UNCHANGED <<sent, failedSends, tracer, chanOpen, run_only, varsP, varsX>>

\* TracingAlloc::disable_tracing (disable).
DisableTracing(j) ==
    /\ pc[j] = "disable"
    /\ calls' = [calls EXCEPT ![j].steps = Append(@, "disable_tracing")]
    /\ tracer' = [tracer EXCEPT !.enabled = FALSE]
    /\ pc' = [pc EXCEPT ![j] = "clear_file"]
    /\ UNCHANGED <<sent, cause, failedSends, chanOpen, run_only, varsP, varsX>>

\* bench_function_memory, `alloc.clear_file().unwrap()`: clear_file
\* (remove_sink) hands back the installed sink, or None, on which unwrap
\* panics.
ClearFile(j) ==
    /\ pc[j] = "clear_file"
    /\ calls' = [calls EXCEPT ![j].steps = Append(@, "clear_file")]
    /\ \/ /\ tracer.sink # 0
          /\ tracer' = [tracer EXCEPT !.sink = 0]
          /\ pc' = [pc EXCEPT ![j] = "mem_io"]
          /\ UNCHANGED cause
       \/ /\ tracer.sink = 0
          /\ pc' = [pc EXCEPT ![j] = "send_panic"]
          /\ cause' = [cause EXCEPT ![j] = "tracer"]
          /\ UNCHANGED tracer
    /\ UNCHANGED <<sent, failedSends, chanOpen, run_only, varsP, varsX>>

\* Variant of MemIO: an I/O error is swallowed and the sampler returns Ok.
MemIO_Swallow(j) ==
    /\ pc[j] = "mem_io"
    /\ calls' = [calls EXCEPT ![j].steps = Append(@, "read")]
    /\ pc' = [pc EXCEPT ![j] = "send_memory"]
    /\ \/ UNCHANGED cause
       \/ cause' = [cause EXCEPT ![j] = "mem_io"]
    /\ UNCHANGED <<sent, failedSends, tracer, chanOpen, run_only, varsP, varsX>>

\* bench_function_memory: flush()?, seek()?, read_to_string()?, then
\* Ok(get_data(..)); each `?` returns MemoryBenchError.
MemIO(j) ==
    /\ pc[j] = "mem_io"
    /\ calls' = [calls EXCEPT ![j].steps = Append(@, "read")]
    /\ \/ /\ pc' = [pc EXCEPT ![j] = "send_memory"]
          /\ UNCHANGED cause
       \/ /\ pc' = [pc EXCEPT ![j] = "send_err"]
          /\ cause' = [cause EXCEPT ![j] = "mem_io"]
    /\ UNCHANGED <<sent, failedSends, tracer, chanOpen, run_only, varsP, varsX>>

\* Bench::bench: send Memory.
SendMemory(j) ==
    /\ pc[j] = "send_memory"
    /\ Send(j, "Memory", "runtime", "send_err")
    /\ UNCHANGED <<calls, tracer, chanOpen, run_only, varsP, varsX>>

\* Bench::bench, bench_function_runtime(self.bench_time, f): the sampling
\* loop touches neither the tracer nor the channel; it returns its
\* RuntimeData or the closure panics in one of its invocations.
BenchRuntime(j) ==
    /\ pc[j] = "runtime"
    /\ calls' = [calls EXCEPT ![j].runtime = @ + 1]
    /\ \/ /\ pc' = [pc EXCEPT ![j] = "send_timing"]
          /\ UNCHANGED cause
       \/ /\ pc' = [pc EXCEPT ![j] = "send_panic"]
          /\ cause' = [cause EXCEPT ![j] = "panic_runtime"]
    /\ UNCHANGED <<sent, failedSends, tracer, chanOpen, run_only, varsP, varsX>>

\* Bench::bench: send Timing, then Ok(()).
SendTiming(j) ==
    /\ pc[j] = "send_timing"
    /\ Send(j, "Timing", "send_finish", "send_err")
    /\ UNCHANGED <<calls, tracer, chanOpen, run_only, varsP, varsX>>

\* bench_worker, Ok(Err(e)): send Error, .expect("Unable to send error").
SendWorkerErr(j) ==
    /\ pc[j] = "send_err"
    /\ Send(j, "Error", "send_finish", "crashed")
    /\ UNCHANGED <<calls, tracer, chanOpen, run_only, varsP, varsX>>

\* Variant of SendPanicErr: the panic arm returns from bench_worker.
SendPanicErr_Return(j) ==
    /\ pc[j] = "send_panic"
    /\ Send(j, "Error", "done", "crashed")
    /\ UNCHANGED <<calls, tracer, chanOpen, run_only, varsP, varsX>>

\* bench_worker, Err(_) of catch_unwind: send Error "Function panicked!".
SendPanicErr(j) ==
    /\ pc[j] = "send_panic"
    /\ Send(j, "Error", "send_finish", "crashed")
    /\ UNCHANGED <<calls, tracer, chanOpen, run_only, varsP, varsX>>

\* bench_worker, Err(InputFileError): send Error.
SendInputErr(j) ==
    /\ pc[j] = "send_input_err"
    /\ Send(j, "Error", "send_finish", "crashed")
    /\ UNCHANGED <<calls, tracer, chanOpen, run_only, varsP, varsX>>

\* bench_worker: send Finish, .expect("Unable to send finish").
SendFinish(j) ==
    /\ pc[j] = "send_finish"
    /\ Send(j, "Finish", "done", "crashed")
    /\ UNCHANGED <<calls, tracer, chanOpen, run_only, varsP, varsX>>

\* The consumer drops the last Receiver: every later send fails.
CloseChannel ==
    /\ chanOpen
    /\ chanOpen' = FALSE
    /\ UNCHANGED <<pc, sent, cause, calls, failedSends, tracer, run_only, varsP, varsX>>

\* One step of job j's worker thread.
Step(j) ==
    \/ InputOpen(j) \/ FuncEnter(j) \/ BenchAnswer(j) \/ SendAnswer(j)
    \/ SendFErr(j) \/ Tempfile(j) \/ SetFile(j) \/ EnableTracing(j)
    \/ Traced(j) \/ DisableTracing(j) \/ ClearFile(j) \/ MemIO(j)
    \/ SendMemory(j) \/ BenchRuntime(j) \/ SendTiming(j)
    \/ SendWorkerErr(j) \/ SendPanicErr(j) \/ SendInputErr(j) \/ SendFinish(j)

NextBench == CloseChannel \/ \E j \in Jobs : Step(j)

ParseIdle ==
    /\ trace = <<>>
    /\ idx = 0
    /\ cur_bytes = 0
    /\ max_bytes = 0
    /\ max_memory = 0
    /\ ppc = "idle"
    /\ build = "release"

Init == InitBench /\ ParseIdle /\ RtIdle /\ ChIdle /\ SingleIdle

Next == NextBench

Spec == Init /\ [][Next]_vars

\* Worker threads are OS threads: while some worker can take a step, one
\* eventually does.  (Nothing obliges the consumer to drop the channel.)
FairSpec == Spec /\ WF_vars(\E j \in Jobs : Step(j))

-----------------------------------------------------------------------------
(* Properties of the event protocol *)

RECURSIVE Count(_, _)
\* Number of occurrences of event ev in the sequence s.
Count(s, ev) ==
    IF s = <<>> THEN 0
    ELSE (IF s[1] = ev THEN 1 ELSE 0) + Count(Tail(s), ev)

IsPrefix(s, t) == Len(s) <= Len(t) /\ SubSeq(t, 1, Len(s)) = s

\* Job j is between its return from set_file and its return from clear_file.
InCS(j) == pc[j] \in {"enable", "traced", "disable", "clear_file"}

Panicked(j) ==
    cause[j] \in {"panic_func", "panic_answer", "panic_traced", "panic_runtime"}

SpecSequences ==
    { <<"Answer", "Finish">>,
      <<"Answer", "Memory", "Timing", "Finish">>,
      <<"Error", "Finish">> }

CodeSequences ==
    SpecSequences \cup
    { <<"Answer", "Error", "Finish">>,
      <<"Answer", "Memory", "Error", "Finish">> }

\* C1 as stated: the events of a finished job are exactly one of
\* [Answer, Finish], [Answer, Memory, Timing, Finish], [Error, Finish]; no
\* Error follows an Answer.
C1_SpecSequences ==
    \A j \in Jobs : pc[j] = "done" => sent[j] \in SpecSequences

\* C1 amended: the events of a job are at every moment a prefix of, and once
\* Finish is sent exactly, one of [Answer, Finish], [Answer, Memory, Timing,
\* Finish], [Error, Finish], [Answer, Error, Finish], [Answer, Memory, Error,
\* Finish]: an Error may follow an Answer or a Memory (a failure or panic
\* during sampling), but no Memory or Timing ever follows an Error.
C1_CodeSequences ==
    \A j \in Jobs :
        /\ \E s \in CodeSequences : IsPrefix(sent[j], s)
        /\ pc[j] = "done" => sent[j] \in CodeSequences

\* A finished job whose runtime sampler panicked after Answer and Memory.
C1_Witness ==
    \E j \in Jobs :
        /\ pc[j] = "done"
        /\ cause[j] = "panic_runtime"
        /\ sent[j] = <<"Answer", "Memory", "Error", "Finish">>

\* C2: Finish is sent at most once per id and is the last event of its id,
\* and every started bench_worker eventually sends it unless the channel is
\* closed.  (A started worker stays started, a sent Finish stays sent and a
\* closed channel stays closed, so "started leads to Finish sent or channel
\* closed" is the recurrence stated here.)
C2_FinishOnceAndLast ==
    /\ [](\A j \in Jobs :
            /\ Count(sent[j], "Finish") <= 1
            /\ Count(sent[j], "Finish") = 1 => sent[j][Len(sent[j])] = "Finish"
            /\ pc[j] = "done" => Count(sent[j], "Finish") = 1)
    /\ \A j \in Jobs :
         []<>(pc[j] = "pending" \/ Count(sent[j], "Finish") = 1 \/ ~chanOpen)

\* A job whose traced invocation panicked has sent Finish, the channel open.
C2_Witness ==
    \E j \in Jobs :
        /\ chanOpen
        /\ cause[j] = "panic_traced"
        /\ sent[j] = <<"Answer", "Error", "Finish">>

\* C3: with run_only no Memory and no Timing event is sent, and neither
\* sampler invokes the job closure.
C3_RunOnly ==
    run_only =>
        \A j \in Jobs :
            /\ Count(sent[j], "Memory") = 0
            /\ Count(sent[j], "Timing") = 0
            /\ calls[j].traced = 0
            /\ calls[j].runtime = 0
            /\ pc[j] \notin {"tempfile", "set_file", "enable", "traced", "disable",
                             "clear_file", "mem_io", "send_memory", "runtime",
                             "send_timing"}

\* A run_only job that answered and finished.
C3_Witness ==
    /\ run_only
    /\ \E j \in Jobs :
        /\ pc[j] = "done"
        /\ calls[j].answer = 1
        /\ sent[j] = <<"Answer", "Finish">>

\* C4 as stated: at most one job is inside the memory sampler's critical
\* section, and a job with tracing enabled for its call has its own sink
\* installed.
C4_MutualExclusion ==
    \A i, j \in Jobs :
        /\ (i # j) => ~(InCS(i) /\ InCS(j))
        /\ (pc[j] = "traced") => tracer.sink = j

\* C5 as stated: once bench_worker has finished a job whose traced invocation
\* panicked, that job's sink is no longer installed and, unless another job
\* is inside its critical section, tracing is disabled.
C5_TeardownOnPanic ==
    \A j \in Jobs :
        (pc[j] = "done" /\ cause[j] = "panic_traced") =>
            /\ tracer.sink # j
            /\ tracer.enabled => \E i \in Jobs \ {j} : InCS(i)

\* C6 as stated: a job whose function panicked sends exactly one Error, and
\* every other job whose own function, input, scratch file and channel did
\* not fail finishes with a normal sequence.
C6_FaultIsolation ==
    \A i \in Jobs :
        (Panicked(i) /\ pc[i] = "done") =>
            /\ Count(sent[i], "Error") = 1
            /\ \A j \in Jobs \ {i} :
                 (pc[j] = "done" /\ cause[j] \in {"none", "tracer"}) =>
                     sent[j] \in { <<"Answer", "Finish">>,
                                   <<"Answer", "Memory", "Timing", "Finish">> }

\* C7 as stated: once a send inside Bench::bench has failed, the worker
\* attempts no further send for that job and does not panic.
C7_AbortOnChannelError ==
    \A j \in Jobs :
        cause[j] = "chan" => (failedSends[j] <= 1 /\ pc[j] # "crashed")

\* C8: a job whose memory sampler hit an I/O error sends no Memory and no
\* Timing, never runs the runtime sampler, reports Error after its Answer
\* and finishes; its worker does not panic while the channel is open.
C8_MemoryIOError ==
    \A j \in Jobs :
        cause[j] = "mem_io" =>
            /\ Count(sent[j], "Memory") = 0
            /\ Count(sent[j], "Timing") = 0
            /\ calls[j].runtime = 0
            /\ IsPrefix(sent[j], <<"Answer", "Error", "Finish">>)
            /\ chanOpen => pc[j] \in {"send_err", "send_finish", "done"}
            /\ pc[j] = "send_finish" => sent[j] = <<"Answer", "Error">>
            /\ pc[j] = "done" => sent[j] = <<"Answer", "Error", "Finish">>

\* A finished job whose I/O error came after the traced invocation.
C8_Witness ==
    \E j \in Jobs :
        /\ cause[j] = "mem_io"
        /\ calls[j].traced = 1
        /\ pc[j] = "done"

\* C9: a job whose input could not be opened never invokes its function and
\* sends exactly Error, then Finish.
C9_InputFailure ==
    \A j \in Jobs :
        cause[j] = "input" =>
            /\ calls[j] = NoCalls
            /\ pc[j] \in {"send_input_err", "send_finish", "done", "crashed"}
            /\ IsPrefix(sent[j], <<"Error", "Finish">>)
            /\ pc[j] = "send_finish" => sent[j] = <<"Error">>
            /\ pc[j] = "done" => sent[j] = <<"Error", "Finish">>

\* A finished job whose input could not be opened.
C9_Witness ==
    \E j \in Jobs : cause[j] = "input" /\ pc[j] = "done"

\* C15: a job whose first closure invocation returned an error invokes the
\* closure exactly once, never enters the samplers and never touches the
\* tracer; Bench::bench sends one Error and no other event, and once that
\* send has succeeded bench has returned Ok(()): the worker goes on to
\* Finish without a second Error.
C15_JobErrorReportedOnce ==
    \A j \in Jobs :
        cause[j] = "f_err" =>
            /\ calls[j] = [NoCalls EXCEPT !.answer = 1]
            /\ pc[j] \in {"send_f_err", "send_finish", "done", "send_err", "crashed"}
            /\ Count(sent[j], "Error") <= 1
            /\ sent[j] # <<>> =>
                   /\ sent[j][1] = "Error"
                   /\ pc[j] \in {"send_finish", "done", "crashed"}
                   /\ failedSends[j] = 0 => pc[j] # "crashed"
            /\ pc[j] = "done" => sent[j] = <<"Error", "Finish">>

\* A finished job whose closure failed, in a run that samples (run_only
\* false): one call, one Error, then Finish.
C15_Witness ==
    \E j \in Jobs :
        /\ ~run_only
        /\ cause[j] = "f_err"
        /\ pc[j] = "done"
        /\ sent[j] = <<"Error", "Finish">>
        /\ calls[j].answer = 1

\* The steps of one call of bench_function_memory, in program order.
MemorySteps ==
    <<"set_file", "enable_tracing", "func", "disable_tracing", "clear_file",
      "read">>

\* C16: the steps a job has performed inside bench_function_memory are at
\* every moment an initial part of set_file, enable_tracing, the callable,
\* disable_tracing, clear_file, flush/seek/read/parse; the callable is
\* invoked there at most once, only after enable_tracing and before
\* disable_tracing, and exactly once when the sampler returns its data.
C16_MemoryStepOrder ==
    \A j \in Jobs :
        /\ IsPrefix(calls[j].steps, MemorySteps)
        /\ calls[j].traced = Count(calls[j].steps, "func")
        /\ calls[j].traced <= 1
        /\ pc[j] = "traced" => calls[j].steps = <<"set_file", "enable_tracing">>
        /\ pc[j] = "send_memory" =>
               (calls[j].steps = MemorySteps /\ calls[j].traced = 1)

\* A job whose memory sampler has just returned its data.
C16_Witness ==
    \E j \in Jobs :
        /\ pc[j] = "send_memory"
        /\ calls[j].steps = MemorySteps
        /\ calls[j].traced = 1

\* Job j's call of bench_function_memory has returned without panicking:
\* with a MemoryBenchError, or after its last step.
MemoryReturned(j) ==
    \/ cause[j] = "mem_io"
    \/ calls[j].steps = MemorySteps

\* C19: when a call of bench_function_memory that found the tracer disabled
\* and without a sink (no other job has used the tracer) has returned with
\* Ok or with a MemoryBenchError, the tracer is disabled and has no sink.
C19_TracerRestored ==
    \A j \in Jobs :
        (MemoryReturned(j) /\ \A i \in Jobs \ {j} : calls[i].steps = <<>>) =>
            tracer = [sink |-> 0, enabled |-> FALSE]

\* A call that returned a MemoryBenchError from flush, seek or read, after
\* all its tracer steps.
C19_Witness ==
    \E j \in Jobs :
        /\ cause[j] = "mem_io"
        /\ pc[j] = "send_err"
        /\ calls[j].steps = MemorySteps
        /\ \A i \in Jobs \ {j} : calls[i].steps = <<>>
        /\ tracer = [sink |-> 0, enabled |-> FALSE]

-----------------------------------------------------------------------------
(* get_data: the memory trace parser *)

\* Width of isize in the model (64 in the build): cur_bytes, max_bytes and
\* the parsed sizes are isize.
ISizeBits == 9
\* Longest enumerated trace, in lines.
MaxLines == 3

ISizeMax == 2^(ISizeBits - 1) - 1
ISizeMin == -(2^(ISizeBits - 1))

\* Two's-complement wrap-around of an isize result (release build).
WrapISize(x) == ((x - ISizeMin) % (2^ISizeBits)) + ISizeMin

\* `as usize`: reinterpretation of an isize as an unsigned word.
AsUsize(x) == x % (2^ISizeBits)

Max(a, b) == IF a >= b THEN a ELSE b

\* A token of line.split_whitespace(): a numeral (with its value) or a word.
Num(n) == [isnum |-> TRUE, n |-> n, w |-> "#"]
Word(w) == [isnum |-> FALSE, n |-> 0, w |-> w]

\* parts.next().map(str::parse) where the target type is u128 (ts).
ParseU128(line, k) ==
    IF Len(line) < k THEN "none"
    ELSE IF line[k].isnum /\ line[k].n >= 0 THEN "ok" ELSE "err"

\* parts.next().map(str::parse) where the target type is isize (size): a
\* numeral outside the isize range is a parse error.
ParseISize(line, k) ==
    IF Len(line) < k THEN "none"
    ELSE IF line[k].isnum /\ line[k].n >= ISizeMin /\ line[k].n <= ISizeMax
         THEN "ok" ELSE "err"

\* The match of get_data's loop body: "A"/"F" need a ts and a size, "S"/"E"
\* a ts only; every other line is skipped (`continue`).  Tokens after the
\* third are never looked at.
LineKind(line) ==
    LET first == IF Len(line) >= 1 /\ ~line[1].isnum THEN line[1].w ELSE "none"
        ts == ParseU128(line, 2)
        size == ParseISize(line, 3)
    IN  IF first = "A" /\ ts = "ok" /\ size = "ok" THEN "A"
        ELSE IF first = "F" /\ ts = "ok" /\ size = "ok" THEN "F"
        ELSE IF first = "S" /\ ts = "ok" THEN "S"
        ELSE IF first = "E" /\ ts = "ok" THEN "E"
        ELSE "skip"

\* The exact (unbounded) value of the `size` the match yields for a line.
LineDelta(line) ==
    LET k == LineKind(line)
    IN  IF k = "A" THEN line[3].n
        ELSE IF k = "F" THEN -(line[3].n)
        ELSE 0

\* The lines the model enumerates: well-formed A/F/S/E lines, lines the parser
\* must skip, and lines with tokens at the edge of the isize range.
Lines ==
    { <<Word("S"), Num(0)>>,
      <<Word("E"), Num(4)>>,
      <<Word("A"), Num(1), Num(100)>>,
      <<Word("A"), Num(2), Num(50)>>,
      <<Word("F"), Num(3), Num(120)>>,
      <<Word("A"), Num(1), Num(ISizeMax)>>,
      <<Word("F"), Num(1), Num(ISizeMax)>>,
      <<Word("F"), Num(1), Num(ISizeMin)>>,
      <<Word("A"), Num(1), Num(ISizeMax + 1)>>,
      <<Word("A"), Num(1), Num(-30)>>,
      <<Word("A"), Num(1)>>,
      <<Word("A"), Word("x"), Num(7)>>,
      <<Word("X"), Num(1), Num(7)>>,
      <<Word("A"), Num(1), Num(7), Num(9)>>,
      <<>> }

\* The trace of the design document's example (section 8): peak 150.
ExampleTrace ==
    << <<Word("S"), Num(0)>>,
       <<Word("A"), Num(1), Num(100)>>,
       <<Word("A"), Num(2), Num(50)>>,
       <<Word("F"), Num(3), Num(120)>>,
       <<Word("E"), Num(4)>> >>

Traces ==
    UNION { [1..n -> Lines] : n \in 0..MaxLines } \cup {ExampleTrace}

InitParse ==
    /\ trace \in Traces
    /\ build \in {"debug", "release"}
    /\ idx = 0
    /\ cur_bytes = 0
    /\ max_bytes = 0
    /\ max_memory = 0
    /\ ppc = "loop"

\* One iteration of `for line in trace_input.lines()`.  An isize overflow in
\* `-size` or `cur_bytes += size` panics in a debug build and wraps in a
\* release build.
ParseLine ==
    /\ ppc = "loop"
    /\ idx < Len(trace)
    /\ LET line == trace[idx + 1]
           k == LineKind(line)
           neg == IF k = "F" THEN -(line[3].n) ELSE 0
           size == IF k = "A" THEN line[3].n
                   ELSE IF k = "F" THEN WrapISize(neg)
                   ELSE 0
           sum == cur_bytes + size
           overflow == (k = "F" /\ neg # WrapISize(neg)) \/ sum # WrapISize(sum)
       IN  IF k = "skip"
           THEN /\ idx' = idx + 1
                /\ UNCHANGED <<cur_bytes, max_bytes, ppc>>
           ELSE IF overflow /\ build = "debug"
           THEN /\ ppc' = "panic"
                /\ UNCHANGED <<idx, cur_bytes, max_bytes>>
           ELSE /\ idx' = idx + 1
                /\ cur_bytes' = WrapISize(sum)
                /\ max_bytes' = Max(max_bytes, WrapISize(sum))
                /\ UNCHANGED ppc
    /\ UNCHANGED <<trace, max_memory, build, varsB, varsX>>

\* MemoryData { max_memory: max_bytes as usize }
ParseReturn ==
    /\ ppc = "loop"
    /\ idx = Len(trace)
    /\ max_memory' = AsUsize(max_bytes)
    /\ ppc' = "ret"
    /\ UNCHANGED <<trace, idx, cur_bytes, max_bytes, build, varsB, varsX>>

NextParse == ParseLine \/ ParseReturn

InitP == InitParse /\ BenchIdle /\ RtIdle /\ ChIdle /\ SingleIdle

SpecParse == InitP /\ [][NextParse]_vars

-----------------------------------------------------------------------------
(* Properties of get_data *)

RECURSIVE PeakFrom(_, _, _, _)
\* The maximum over all prefixes of lines[k..] of running + the exact sum of
\* the prefix's deltas, and of peak: the peak of section 4.2, in unbounded
\* integers.
PeakFrom(lines, k, running, peak) ==
    IF k > Len(lines) THEN peak
    ELSE LET r == running + LineDelta(lines[k])
         IN  PeakFrom(lines, k + 1, r, Max(peak, r))

RefPeak(lines) == PeakFrom(lines, 1, 0, 0)

\* C10 as stated: for every trace get_data returns, as max_memory, the
\* maximum over all prefixes of the accepted lines of the running total
\* (+size for A, -size for F, unchanged for S and E; 0 for the empty prefix).
C10_PeakOfRunningTotal ==
    /\ ppc # "panic"
    /\ ppc = "ret" => max_memory = RefPeak(trace)

\* The same, for the traces whose running total stays inside the isize range.
RECURSIVE InRange(_, _, _)
InRange(lines, k, running) ==
    IF k > Len(lines) THEN TRUE
    ELSE LET r == running + LineDelta(lines[k])
         IN  /\ LineDelta(lines[k]) >= ISizeMin /\ LineDelta(lines[k]) <= ISizeMax
             /\ r >= ISizeMin /\ r <= ISizeMax
             /\ InRange(lines, k + 1, r)

PeakWithinRange ==
    InRange(trace, 1, 0) =>
        /\ ppc # "panic"
        /\ ppc = "ret" => max_memory = RefPeak(trace)

\* The documented example: S 0 / A 1 100 / A 2 50 / F 3 120 / E 4 gives 150.
ExamplePeak ==
    (trace = ExampleTrace /\ ppc = "ret") => max_memory = 150

\* A line of the grammar of section 4.2: "A"/"F" with exactly a timestamp and
\* a size, "S"/"E" with exactly a timestamp.
Grammar(line) ==
    \/ /\ Len(line) = 3
       /\ LineKind(line) \in {"A", "F"}
    \/ /\ Len(line) = 2
       /\ LineKind(line) \in {"S", "E"}

\* C11 as stated: the lines that do not match the grammar (wrong token count,
\* non-numeric field, unknown leading token) are skipped, so max_memory is
\* the peak of the well-formed lines alone, wherever the others are inserted.
C11_MalformedLinesSkipped ==
    (ppc = "ret" /\ InRange(trace, 1, 0)) =>
        max_memory = RefPeak(SelectSeq(trace, Grammar))

\* C12 as stated: the reported peak is never negative and never a wrapped
\* value: it is 0 when the running total never rises above 0, however far
\* the F lines take it below 0.
C12_NeverNegativeOrWrapped ==
    ppc = "ret" =>
        /\ max_memory >= 0
        /\ max_memory <= ISizeMax
        /\ RefPeak(trace) = 0 => max_memory = 0

-----------------------------------------------------------------------------
(* bench_function_runtime: the sampling loop *)

\* Clock ticks per second: durations are counted in ticks, bench_time in
\* whole seconds.
TicksPerSec == 2
\* Longest time one invocation of the callable takes, in ticks.
MaxCost == 2
\* Largest bench_time, in seconds.
MaxBenchTime == 6
\* Longest time that passes between two neighbouring statements of the loop
\* body, in ticks.
MaxOverhead == 1
\* `total_runs >= 10`
MinRuns == 10

\* Duration::from_secs(u64::MAX), the initial min_run: above every sample.
MinRunInit == MaxCost + 1

\* Duration::as_secs: whole seconds, the fraction dropped.
AsSecs(ticks) == ticks \div TicksPerSec

\* The locals before the loop; bench_start is tick 0 of `now`.  e1 is the
\* time between the two reads of start.elapsed(), e2 the time the rest of
\* the loop body takes (drop, min/max, the exit test).  sum and prev are
\* history: the sum of the samples `elapsed`, and the clock when the sample
\* in flight began.
InitRuntime ==
    /\ rt \in [pc : {"loop"},
               bench_time : 0..MaxBenchTime,
               e1 : 0..MaxOverhead,
               e2 : 0..MaxOverhead,
               now : {0},
               total_time : {0},
               total_runs : {0},
               min_run : {MinRunInit},
               max_run : {0},
               elapsed : {0},
               sum : {0},
               prev : {0},
               mean_run : {0}]
    /\ BenchIdle /\ ParseIdle /\ ChIdle /\ SingleIdle

\* One pass of the loop body up to the exit test: start = now; func() takes
\* c ticks; elapsed = start.elapsed(); total_time += start.elapsed(), read
\* e1 later; total_runs += 1; drop(res); min_run and max_run follow elapsed.
Sample ==
    /\ rt.pc = "loop"
    /\ \E c \in 1..MaxCost :
        rt' = [rt EXCEPT !.pc = "check",
                         !.prev = rt.now,
                         !.elapsed = c,
                         !.total_time = @ + c + rt.e1,
                         !.total_runs = @ + 1,
                         !.sum = @ + c,
                         !.min_run = IF c < @ THEN c ELSE @,
                         !.max_run = IF c > @ THEN c ELSE @,
                         !.now = @ + c + rt.e1 + rt.e2]
    /\ UNCHANGED <<varsB, varsP, ch, single>>

\* Variant of ExitCheck: either floor alone ends the loop.
ExitCheck_Or ==
    /\ rt.pc = "check"
    /\ IF AsSecs(rt.now) >= rt.bench_time \/ rt.total_runs >= MinRuns
       THEN rt' = [rt EXCEPT !.pc = "ret",
                             !.mean_run = rt.total_time \div rt.total_runs]
       ELSE rt' = [rt EXCEPT !.pc = "loop"]
    /\ UNCHANGED <<varsB, varsP, ch, single>>

\* Variant of ExitCheck: the loop ends only after more than MinRuns samples.
ExitCheck_Late ==
    /\ rt.pc = "check"
    /\ IF AsSecs(rt.now) >= rt.bench_time /\ rt.total_runs > MinRuns
       THEN rt' = [rt EXCEPT !.pc = "ret",
                             !.mean_run = rt.total_time \div rt.total_runs]
       ELSE rt' = [rt EXCEPT !.pc = "loop"]
    /\ UNCHANGED <<varsB, varsP, ch, single>>

\* `if bench_start.elapsed().as_secs() >= bench_time && total_runs >= 10
\* { break; }`, and after the loop mean_run = total_time / total_runs.
ExitCheck ==
    /\ rt.pc = "check"
    /\ IF AsSecs(rt.now) >= rt.bench_time /\ rt.total_runs >= MinRuns
       THEN rt' = [rt EXCEPT !.pc = "ret",
                             !.mean_run = rt.total_time \div rt.total_runs]
       ELSE rt' = [rt EXCEPT !.pc = "loop"]
    /\ UNCHANGED <<varsB, varsP, ch, single>>

NextRuntime == Sample \/ ExitCheck

SpecRuntime == InitRuntime /\ [][NextRuntime]_vars

\* The thread running the loop keeps running.
FairSpecRuntime == SpecRuntime /\ WF_vars(NextRuntime)

-----------------------------------------------------------------------------
(* Properties of bench_function_runtime *)

\* C13: bench_function_runtime returns only when at least MinRuns
\* invocations were made and at least bench_time seconds have passed since
\* the loop began, and, every invocation returning after a positive time,
\* it does return.
C13_BothFloors ==
    /\ [](rt.pc = "ret" =>
            /\ rt.total_runs >= MinRuns
            /\ rt.now >= rt.bench_time * TicksPerSec)
    /\ <>(rt.pc = "ret")

\* A return where the count floor dominates: bench_time is 1 s, the MinRuns
\* invocations took longer than that.
C13_Witness ==
    /\ rt.pc = "ret"
    /\ rt.bench_time = 1
    /\ rt.total_runs = MinRuns
    /\ rt.now > rt.bench_time * TicksPerSec

\* The least n >= MinRuns with n * d >= T seconds, d in ticks.
LeastRuns(d, T) ==
    CHOOSE n \in MinRuns..(MinRuns + T * TicksPerSec) :
        /\ n * d >= T * TicksPerSec
        /\ \A m \in MinRuns..(n - 1) : m * d < T * TicksPerSec

C18_MeanOfSamples ==
    rt.pc = "ret" => rt.mean_run = rt.sum \div rt.total_runs

-----------------------------------------------------------------------------
(* The event channel shared by the workers *)

\* Most events waiting in the channel at once (the channel is unbounded).
MaxInFlight == 3

\* Each worker thread is about to send, in program order, the events of one
\* of the sequences a job produces; nothing is queued or received yet.
InitChan ==
    /\ ch \in [pc : {"run"},
               script : [Jobs -> CodeSequences],
               next : {[j \in Jobs |-> 0]},
               queue : {<<>>},
               recvd : {[j \in Jobs |-> <<>>]}]
    /\ BenchIdle /\ ParseIdle /\ RtIdle /\ SingleIdle

\* Variant of ChanSend: the event overtakes the events waiting in the
\* channel.
ChanSend_Front(j) ==
    /\ ch.pc = "run"
    /\ ch.next[j] < Len(ch.script[j])
    /\ Len(ch.queue) < MaxInFlight
    /\ ch' = [ch EXCEPT
                !.next[j] = @ + 1,
                !.queue = <<[id |-> j, ev |-> ch.script[j][ch.next[j] + 1]]>> \o @]
    /\ UNCHANGED <<varsB, varsP, rt, single>>

\* self.chan.send(..) / sender.send(..) by the worker thread of job j: its
\* next event, tagged with its id, joins the end of the channel.
ChanSend(j) ==
    /\ ch.pc = "run"
    /\ ch.next[j] < Len(ch.script[j])
    /\ Len(ch.queue) < MaxInFlight
    /\ ch' = [ch EXCEPT
                !.next[j] = @ + 1,
                !.queue = Append(@, [id |-> j, ev |-> ch.script[j][ch.next[j] + 1]])]
    /\ UNCHANGED <<varsB, varsP, rt, single>>

\* The consumer receives the oldest event of the channel.
ChanRecv ==
    /\ ch.pc = "run"
    /\ ch.queue # <<>>
    /\ ch' = [ch EXCEPT
                !.queue = Tail(@),
                !.recvd[ch.queue[1].id] = Append(@, ch.queue[1].ev)]
    /\ UNCHANGED <<varsB, varsP, rt, single>>

NextChan == ChanRecv \/ \E j \in Jobs : ChanSend(j)

SpecChan == InitChan /\ [][NextChan]_vars

-----------------------------------------------------------------------------
(* Properties of the event channel *)

RECURSIVE EventsOf(_, _)
\* The events with id j in the queue q, oldest first.
EventsOf(q, j) ==
    IF q = <<>> THEN <<>>
    ELSE IF q[1].id = j THEN <<q[1].ev>> \o EventsOf(Tail(q), j)
    ELSE EventsOf(Tail(q), j)

-----------------------------------------------------------------------------
(* run and run_single: the parts of one day, without workers *)

\* A Day has part_1 and at most a part_2.
MaxParts == 2
\* Most days selected by the command line.
MaxDays == 2

\* run_single's Bench has id 0; it is job 1 of the model.  The events sent
\* on run_single's channel and not yet received.
Pending == SubSeq(sent[1], single.taken + 1, Len(sent[1]))

\* Entry of run: the run type of the command line, the days its filter
\* names (found: whether get_days finds them all) and the parts of the
\* first of them.
InitSingle ==
    /\ single \in [pc : {"run"},
                   run_type : {"Run", "Bench", "Detailed"},
                   ndays : 0..MaxDays,
                   found : BOOLEAN,
                   part : {0},
                   nparts : 1..MaxParts,
                   taken : {0},
                   msg : {"none"},
                   printed : {<<>>}]
    /\ BenchIdle /\ ParseIdle /\ RtIdle /\ ChIdle

\* run: get_days(..)?, then the match on the run type and the days:
\* run_single for Run with exactly one day (print_header, the channel),
\* todo!() for Detailed, run_simple_bench otherwise.
Run ==
    /\ single.pc = "run"
    /\ single' = [single EXCEPT
                    !.pc = CASE ~single.found -> "err"
                             [] single.found /\ single.run_type = "Run"
                                    /\ single.ndays = 1 -> "loop"
                             [] single.found /\ single.run_type = "Detailed" -> "panic"
                             [] OTHER -> "simple_bench"]
    /\ UNCHANGED <<varsB, varsP, rt, ch>>

\* `for (part, id) in parts`: the next part and its Bench (run_only: true,
\* bench_time: 0, a clone of the sender).
SingleNextPart ==
    /\ single.pc = "loop"
    /\ single.part < single.nparts
    /\ single' = [single EXCEPT !.pc = "open", !.part = @ + 1]
    /\ pc' = [pc EXCEPT ![1] = "pending"]
    /\ cause' = [cause EXCEPT ![1] = "none"]
    /\ calls' = [calls EXCEPT ![1] = NoCalls]
    /\ UNCHANGED <<sent, failedSends, tracer, chanOpen, run_only, varsP, rt, ch>>

\* `let input = input(year, day.day).open()?;`
SingleOpen ==
    /\ single.pc = "open"
    /\ \/ /\ single' = [single EXCEPT !.pc = "part"]
          /\ pc' = [pc EXCEPT ![1] = "func"]
          /\ UNCHANGED cause
       \/ /\ single' = [single EXCEPT !.pc = "err"]
          /\ cause' = [cause EXCEPT ![1] = "input"]
          /\ UNCHANGED pc
    /\ UNCHANGED <<sent, calls, failedSends, tracer, chanOpen, run_only, varsP, rt, ch>>

\* `part(&input, dummy)?` returns: Ok(()) goes on to recv, an Err leaves
\* run_single through `?`, a panic unwinds through run_single (nothing
\* catches it).
SinglePartReturn ==
    /\ single.pc = "part"
    /\ pc[1] \in {"send_finish", "send_err", "send_panic"}
    /\ single' = [single EXCEPT
                    !.pc = CASE pc[1] = "send_finish" -> "recv"
                             [] pc[1] = "send_err" -> "err"
                             [] pc[1] = "send_panic" -> "panic"]
    /\ pc' = [pc EXCEPT ![1] = "returned"]
    /\ UNCHANGED <<sent, cause, calls, failedSends, tracer, chanOpen, run_only,
                   varsP, rt, ch>>

\* `match receiver.recv().expect(..)`: takes the oldest pending event (and
\* blocks while there is none: run_single holds a sender); the text of an
\* Answer or Error becomes `message`, anything else reaches unreachable!().
SingleRecv ==
    /\ single.pc = "recv"
    /\ Pending # <<>>
    /\ single' = [single EXCEPT
                    !.taken = @ + 1,
                    !.msg = IF Pending[1] \in {"Answer", "Error"}
                            THEN Pending[1] ELSE @,
                    !.pc = IF Pending[1] \in {"Answer", "Error"}
                           THEN "print" ELSE "unreachable"]
    /\ UNCHANGED <<varsB, varsP, rt, ch>>

\* `println!("  {:>2}.{} | {}", day.day, id, message);`
SinglePrint ==
    /\ single.pc = "print"
    /\ single' = [single EXCEPT
                    !.pc = "loop",
                    !.msg = "none",
                    !.printed = Append(@, [id |-> single.part, message |-> single.msg])]
    /\ UNCHANGED <<varsB, varsP, rt, ch>>

\* After the last part: print_footer, print_alt_answers, Ok(()).
SingleReturn ==
    /\ single.pc = "loop"
    /\ single.part = single.nparts
    /\ single' = [single EXCEPT !.pc = "done"]
    /\ UNCHANGED <<varsB, varsP, rt, ch>>

NextSingle ==
    \/ Run
    \/ SingleNextPart
    \/ SingleOpen
    \/ FuncEnter(1)
    \/ BenchAnswer(1)
    \/ SendAnswer(1)
    \/ SendFErr(1)
    \/ SinglePartReturn
    \/ SingleRecv
    \/ SinglePrint
    \/ SingleReturn

SpecSingle == InitSingle /\ [][NextSingle]_vars

-----------------------------------------------------------------------------
(* Properties of run_single *)

====
